---- MODULE Spec2Model ----
(***************************************************************************)
(* State-machine model of the sarif-web-component viewer core:             *)
(*   - the Discussion / DiscussionDetails components                       *)
(*     (src/components/Viewer.Discussion.tsx), and                         *)
(*   - the Viewer component (src/unnamed/part_000).                        *)
(*                                                                         *)
(* Strings are sequences of one-character strings, so that toLowerCase,    *)
(* split, trim and substring search are computed rather than assumed.      *)
(* An optional value (a?.b, possibly undefined) is a sequence of length 0  *)
(* (undefined/null) or 1 (the value).                                      *)
(***************************************************************************)
EXTENDS Integers, Sequences, FiniteSets, TLC

VARIABLES
    filterState,         \* Discussion.props.filterState
    discussions,         \* store.discussions
    selectedDiscussion,  \* Discussion.selectedDiscussion (index into store.discussions, 0 = null)
    filteredCache,       \* memoised value of the @computed filteredDiscussions (while observed)
    showAll,             \* DiscussionDetails.showAll
    newComment,          \* DiscussionDetails.newComment.value
    newCommentError,     \* DiscussionDetails.newCommentError.value
    clock,               \* the wall clock read by new Date()
    filter,              \* Viewer.filter (MobxFilter) state
    logs,                \* Viewer.props.logs (a reference into LogInputs, 0 = undefined)
    pipelineId,          \* Viewer.props.pipelineId
    pipelineContext,     \* Viewer.pipelineContext
    warnOldVersion,      \* Viewer.warnOldVersion
    runStoresCache,      \* memo table of the computedFn runStores (keepAlive)
    last,                \* the last Viewer event handled (observation only)
    pc,                  \* the event handler that has written but not yet returned ("idle" = none)
    torn                 \* a reaction has run between two writes of one handler (observation only)

discussionVars == <<filterState, discussions, selectedDiscussion, filteredCache,
                    showAll, newComment, newCommentError, clock>>
viewerVars == <<filter, logs, pipelineId, pipelineContext, warnOldVersion,
                runStoresCache, last>>
handlerVars == <<pc, torn>>
vars == <<filterState, discussions, selectedDiscussion, filteredCache,
          showAll, newComment, newCommentError, clock,
          filter, logs, pipelineId, pipelineContext, warnOldVersion,
          runStoresCache, last, pc, torn>>

(***************************************************************************)
(* Bounds of the model.                                                    *)
(***************************************************************************)
MaxThreads == 4      \* threads in store.discussions (3 are there initially)
MaxPosts == 2        \* comments posted during a behaviour
MaxRevision == 2     \* reapply actions during a behaviour

(***************************************************************************)
(* Strings.                                                                *)
(***************************************************************************)
Undefined == <<>>
Some(v) == <<v>>
IsDefined(o) == Len(o) = 1
Value(o) == o[1]

EmptyString == <<>>

ToLowerChar(c) ==
    CASE c = "R" -> "r" [] c = "U" -> "u" [] c = "L" -> "l" [] c = "E" -> "e"
      [] OTHER -> c

\* String.prototype.toLowerCase
toLowerCase(s) == [i \in 1..Len(s) |-> ToLowerChar(s[i])]

IsSpace(c) == c \in {" ", "\t", "\n"}

\* String.prototype.split(/\s+/): a separator is a maximal run of whitespace;
\* leading or trailing whitespace yields an empty first or last part.
RECURSIVE SplitFrom(_, _, _, _)
SplitFrom(s, i, cur, acc) ==
    IF i > Len(s) THEN Append(acc, cur)
    ELSE IF IsSpace(s[i])
         THEN IF i > 1 /\ IsSpace(s[i - 1])
              THEN SplitFrom(s, i + 1, cur, acc)
              ELSE SplitFrom(s, i + 1, EmptyString, Append(acc, cur))
         ELSE SplitFrom(s, i + 1, Append(cur, s[i]), acc)

split(s) == SplitFrom(s, 1, EmptyString, <<>>)

\* .filter(part => part): the empty string is falsy
NonEmptyParts(parts) == SelectSeq(parts, LAMBDA part : part # EmptyString)

\* String.prototype.includes
includes(haystack, needle) ==
    \E i \in 0..(Len(haystack) - Len(needle)) :
        SubSeq(haystack, i + 1, i + Len(needle)) = needle

\* isMatch of ./RunStore: every keyword is a substring of the field;
\* no keywords at all match everything.
isMatch(field, keywords) ==
    \A k \in 1..Len(keywords) : includes(field, keywords[k])

\* String.prototype.trim
RECURSIVE TrimStart(_)
TrimStart(s) ==
    IF s # EmptyString /\ IsSpace(Head(s)) THEN TrimStart(Tail(s)) ELSE s
RECURSIVE TrimEnd(_)
TrimEnd(s) ==
    IF s # EmptyString /\ IsSpace(s[Len(s)])
    THEN TrimEnd(SubSeq(s, 1, Len(s) - 1)) ELSE s
trim(s) == TrimEnd(TrimStart(s))

(***************************************************************************)
(* Viewer.Discussion.tsx: constants and the store.                         *)
(***************************************************************************)
statuses == <<"Open", "Closed">>

dispositions == <<"Should fix, P1", "Should fix, P2", "Should fix, P3",
                  "Ignore for 90 days", "Not worth fixing", "False positive",
                  "Discussion">>

RULE01 == <<"R","U","L","E","0","1">>
RULE02 == <<"R","U","L","E","0","2">>
RULE03 == <<"R","U","L","E","0","3">>
Sp == <<" ">>

\* new Comment(who, when, text)
Comment(who, when, text) == [who |-> who, when |-> when, text |-> text]

\* new DiscussionItem(keywords, status, comments); disposition = dispositions[0]
DiscussionItem(keywords, status, comments) ==
    [keywords |-> keywords, status |-> status,
     disposition |-> dispositions[1], comments |-> comments]

\* The demo store. Comment bodies are abbreviated to their first word and
\* the dates to yyyymmdd numbers.
store ==
    << DiscussionItem(RULE01, statuses[1],
          << Comment("Michael", 20100101, <<"L","o","r","e","m">>),
             Comment("Jeff",    20100102, <<"U","t">>),
             Comment("Michael", 20100103, <<"P","l","a","t","e","a">>),
             Comment("Jeff",    20100104, <<"S","e","d">>) >>),
       DiscussionItem(RULE01 \o Sp \o RULE02, statuses[2],
          << Comment("Larry",   20100201, <<"D","u","i","s">>) >>),
       DiscussionItem(RULE01 \o Sp \o RULE02 \o Sp \o RULE03, statuses[1],
          << Comment("Alison",  20100301, <<"E","x","c","e","p","t","e","u","r">>) >>) >>

\* First reading of the wall clock (any instant after the demo data).
Epoch == 20260101

\* DiscussionDetails.limit
limit == 3

\* Discussion.props.user
user == Undefined

(***************************************************************************)
(* Inputs of the Discussion component.                                     *)
(***************************************************************************)
KeywordInputs ==
    { Undefined,
      Some(EmptyString),
      Some(RULE01),
      Some(toLowerCase(RULE02 \o Sp \o RULE01)) }

StatusInputs == { Undefined, Some({"Open"}), Some({"Closed"}) }

DispositionInputs == { dispositions[1], dispositions[6] }

TextInputs == { EmptyString, <<" ">>, <<"a">> }

KeyInputs == { "Enter", "a" }

(***************************************************************************)
(* Discussion: derived values.                                             *)
(***************************************************************************)
\* @computed get filteredDiscussions(): the visible threads, as references
\* (indices) into store.discussions, in store order.
filteredDiscussions(fs, ds) ==
    LET keywords == IF IsDefined(fs.Keywords)
                    THEN NonEmptyParts(split(toLowerCase(Value(fs.Keywords))))
                    ELSE <<>>
        sts == IF IsDefined(fs.Discussion) THEN Value(fs.Discussion) ELSE {}
        keep(i) ==
            LET thread == ds[i]
                isStatusMatch == sts = {} \/ thread.status \in sts
                isKeywordMatch == isMatch(toLowerCase(thread.keywords), keywords)
            IN  isStatusMatch /\ isKeywordMatch
    IN  SelectSeq([i \in 1..Len(ds) |-> i], keep)

hasExactKeywordMatchOfCaseSensitive(fs, filtered, ds) ==
    IF ~IsDefined(fs.Keywords) \/ Value(fs.Keywords) = EmptyString THEN TRUE
    ELSE LET keywords == toLowerCase(Value(fs.Keywords))
         IN  \E n \in 1..Len(filtered) : ds[filtered[n]].keywords = keywords

\* @computed get hasExactKeywordMatch(), reading filteredDiscussions
hasExactKeywordMatchOf(fs, filtered, ds) ==
    IF ~IsDefined(fs.Keywords) \/ Value(fs.Keywords) = EmptyString THEN TRUE
    ELSE LET keywords == toLowerCase(Value(fs.Keywords))
         IN  \E n \in 1..Len(filtered) :
                 toLowerCase(ds[filtered[n]].keywords) = keywords

\* The list the observer component has on screen in ListView: the memoised
\* filteredDiscussions.
Visible == IF IsDefined(filteredCache) THEN Value(filteredCache) ELSE <<>>
VisibleSet == { Visible[n] : n \in 1..Len(Visible) }

hasExactKeywordMatch == hasExactKeywordMatchOf(filterState, Visible, discussions)

\* Discussion.render() as a MobX reaction. filteredDiscussions is a computed
\* value: it is recomputed when an observable it read has changed (only
\* props.filterState is one: store.discussions and DiscussionItem.status are
\* plain fields), it is kept while render() observes it, and it is dropped
\* when render() stops reading it (a thread is selected).
RenderDiscussion(fs, ds, sel, cache, propsChanged) ==
    IF sel # 0 THEN Undefined
    ELSE IF propsChanged \/ ~IsDefined(cache) THEN Some(filteredDiscussions(fs, ds))
    ELSE cache

\* A freshly mounted DiscussionDetails instance.
MountDetailsKeepsToggle ==
    /\ showAll' = showAll
    /\ newComment' = EmptyString
    /\ newCommentError' = FALSE

MountDetails ==
    /\ showAll' = FALSE
    /\ newComment' = EmptyString
    /\ newCommentError' = FALSE

(***************************************************************************)
(* Discussion: operations.                                                 *)
(***************************************************************************)
\* The parent passes a filterState with another Keywords value.
SetKeywords(k) ==
    /\ k # filterState.Keywords
    /\ filterState' = [filterState EXCEPT !.Keywords = k]
    /\ filteredCache' = RenderDiscussion(filterState', discussions,
                                         selectedDiscussion, filteredCache, TRUE)
    /\ UNCHANGED <<discussions, selectedDiscussion, showAll, newComment,
                   newCommentError, clock>>
    /\ UNCHANGED viewerVars
    /\ UNCHANGED handlerVars

\* The parent passes a filterState with another Discussion (status) value.
SetStatusFilter(s) ==
    /\ s # filterState.Discussion
    /\ filterState' = [filterState EXCEPT !.Discussion = s]
    /\ filteredCache' = RenderDiscussion(filterState', discussions,
                                         selectedDiscussion, filteredCache, TRUE)
    /\ UNCHANGED <<discussions, selectedDiscussion, showAll, newComment,
                   newCommentError, clock>>
    /\ UNCHANGED viewerVars
    /\ UNCHANGED handlerVars

\* onClick of a list item: this.selectedDiscussion = discussion
selectThread(i) ==
    /\ selectedDiscussion = 0
    /\ i \in VisibleSet
    /\ selectedDiscussion' = i
    /\ filteredCache' = RenderDiscussion(filterState, discussions, i,
                                         filteredCache, FALSE)
    /\ MountDetails
    /\ UNCHANGED <<filterState, discussions, clock>>
    /\ UNCHANGED viewerVars
    /\ UNCHANGED handlerVars

\* backButtonProps.onClick: this.selectedDiscussion = null
backToFirst ==
    /\ selectedDiscussion # 0
    /\ selectedDiscussion' = 1
    /\ filteredCache' = RenderDiscussion(filterState, discussions, 1,
                                         filteredCache, FALSE)
    /\ MountDetails
    /\ UNCHANGED <<filterState, discussions, clock>>
    /\ UNCHANGED viewerVars
    /\ UNCHANGED handlerVars

back ==
    /\ selectedDiscussion # 0
    /\ selectedDiscussion' = 0
    /\ filteredCache' = RenderDiscussion(filterState, discussions, 0,
                                         filteredCache, FALSE)
    /\ MountDetails
    /\ UNCHANGED <<filterState, discussions, clock>>
    /\ UNCHANGED viewerVars
    /\ UNCHANGED handlerVars

\* "Start new discussion" onClick; the button is rendered in the list view
\* when !this.hasExactKeywordMatch.
createThreadNewClosed ==
    Append(discussions,
           DiscussionItem(Value(filterState.Keywords), statuses[2], <<>>))

createThreadNew ==
    Append(discussions,
           DiscussionItem(Value(filterState.Keywords), statuses[1], <<>>))

\* render(): {!discussion ? <>{!this.hasExactKeywordMatch && <Button .../>} ...
StartNewDiscussionOffered ==
    /\ selectedDiscussion = 0
    /\ ~hasExactKeywordMatch

createThread ==
    /\ StartNewDiscussionOffered
    /\ Len(discussions) < MaxThreads
    /\ discussions' = createThreadNew
    /\ selectedDiscussion' = Len(discussions')
    /\ filteredCache' = RenderDiscussion(filterState, discussions',
                                         selectedDiscussion', filteredCache, FALSE)
    /\ MountDetails
    /\ UNCHANGED <<filterState, clock>>
    /\ UNCHANGED viewerVars
    /\ UNCHANGED handlerVars

\* discussionHeader is rendered for every visible thread of the list and
\* for the selected thread of the detail view.
HeaderShown(i) ==
    IF selectedDiscussion = 0 THEN i \in VisibleSet ELSE i = selectedDiscussion

\* discussionHeader, status dropdown: onSelect={item => discussion.status = item}
setStatus(i, item) ==
    /\ HeaderShown(i)
    /\ discussions' = [discussions EXCEPT ![i].status = item]
    /\ UNCHANGED <<filterState, selectedDiscussion, filteredCache, showAll,
                   newComment, newCommentError, clock>>
    /\ UNCHANGED viewerVars
    /\ UNCHANGED handlerVars

\* discussionHeader, disposition dropdown: onSelect={item => discussion.disposition = item}
setDisposition(i, item) ==
    /\ HeaderShown(i)
    /\ discussions' = [discussions EXCEPT ![i].disposition = item]
    /\ UNCHANGED <<filterState, selectedDiscussion, filteredCache, showAll,
                   newComment, newCommentError, clock>>
    /\ UNCHANGED viewerVars
    /\ UNCHANGED handlerVars

(***************************************************************************)
(* DiscussionDetails: operations.                                          *)
(***************************************************************************)
\* TextField onChange
onChange(newValue) ==
    /\ selectedDiscussion # 0
    /\ newComment' = newValue
    /\ newCommentError' = (newComment' = EmptyString)
    /\ UNCHANGED <<filterState, discussions, selectedDiscussion, filteredCache,
                   showAll, clock>>
    /\ UNCHANGED viewerVars
    /\ UNCHANGED handlerVars

\* The comment sequence after discussion.comments.push(comment)
pushFront(comments, comment) == <<comment>> \o comments

push(comments, comment) == Append(comments, comment)

\* TextField onKeyPress
onKeyPress(key) ==
    /\ selectedDiscussion # 0
    /\ IF key # "Enter"
       THEN UNCHANGED discussionVars
       ELSE /\ clock - Epoch < MaxPosts
            /\ discussions' =
                 [discussions EXCEPT ![selectedDiscussion].comments =
                     push(@, Comment(IF IsDefined(user) THEN Value(user) ELSE "Anonymous",
                                     clock, newComment))]
            /\ newComment' = EmptyString
            /\ clock' = clock + 1
            /\ UNCHANGED <<filterState, selectedDiscussion, filteredCache,
                           showAll, newCommentError>>
    /\ UNCHANGED viewerVars
    /\ UNCHANGED handlerVars

\* "View more comments" onClick; the link is rendered when
\* discussion.comments.length > this.limit && !this.showAll.
viewMoreComments ==
    /\ selectedDiscussion # 0
    /\ Len(discussions[selectedDiscussion].comments) > limit
    /\ ~showAll
    /\ showAll' = TRUE
    /\ UNCHANGED <<filterState, discussions, selectedDiscussion, filteredCache,
                   newComment, newCommentError, clock>>
    /\ UNCHANGED viewerVars
    /\ UNCHANGED handlerVars

\* The comments DiscussionDetails.render() puts on screen.
shownComments ==
    LET comments == discussions[selectedDiscussion].comments
    IN  IF showAll THEN comments
        ELSE SubSeq(comments, 1, IF Len(comments) < limit THEN Len(comments) ELSE limit)

(***************************************************************************)
(* Viewer: inputs.                                                         *)
(***************************************************************************)
\* A sarif Run, reduced to what the viewer core reads: the driver name and
\* the rule ids of its results.
Run(driverName, results) == [driverName |-> driverName, results |-> results]
Log(version, runs) == [version |-> version, runs |-> runs]

SupportedVersion == <<"2",".","1",".","0">>
LegacyVersion == <<"2",".","0",".","0">>

RunA == Run(<<"a">>, <<RULE01, RULE01, RULE01>>)
RunB == Run(<<"b">>, <<RULE01, RULE02>>)
RunC == Run(<<"c">>, <<RULE01, RULE01, RULE01, RULE02>>)
RunD == Run(<<"d">>, <<RULE02>>)
RunX == Run(<<"a","b">>, <<RULE03>>)
RunE == Run(<<"a">>, <<RULE02, RULE03>>)

\* The log collections a host may pass as props.logs. A reference is an
\* index into this sequence; 0 is undefined (not yet available). References
\* 2 and 3 are two different arrays with the same content.
LogInputs ==
    << << Log(LegacyVersion, <<RunX>>) >>,
       << Log(SupportedVersion, <<RunA, RunB, RunC, RunD>>) >>,
       << Log(SupportedVersion, <<RunA, RunB, RunC, RunD>>) >>,
       << Log(SupportedVersion, <<RunD, RunC, RunE>>),
          Log(LegacyVersion, <<RunX>>),
          Log(SupportedVersion, <<RunA, RunX>>) >> >>

LogRefs == 0..Len(LogInputs)

ViewerKeywordInputs ==
    { Undefined,
      Some(toLowerCase(RULE01)),
      Some(RULE02),
      Some(<<"z","z">>) }

PipelineIdInputs == { Undefined, Some("p1") }

(***************************************************************************)
(* Viewer: helpers.                                                        *)
(***************************************************************************)
CharOrder == <<"a", "b", "c", "d">>
CharRank(c) == CHOOSE n \in 1..Len(CharOrder) : CharOrder[n] = c

\* String.prototype.localeCompare on lower-case letters
RECURSIVE localeCompare(_, _)
localeCompare(a, b) ==
    IF a = EmptyString /\ b = EmptyString THEN 0
    ELSE IF a = EmptyString THEN -1
    ELSE IF b = EmptyString THEN 1
    ELSE IF CharRank(Head(a)) < CharRank(Head(b)) THEN -1
    ELSE IF CharRank(Head(a)) > CharRank(Head(b)) THEN 1
    ELSE localeCompare(Tail(a), Tail(b))

\* Array.prototype.sort / the sorted() of ./extension: a stable sort by a
\* comparator (negative: the first argument goes first). cmp[i][j] is the
\* comparator applied to s[i] and s[j].
sorted(s, cmp) ==
    LET rank(i) == Cardinality({ j \in 1..Len(s) :
                        \/ cmp[j][i] < 0
                        \/ cmp[j][i] = 0 /\ j < i }) + 1
    IN  [k \in 1..Len(s) |-> s[CHOOSE i \in 1..Len(s) : rank(i) = k]]

\* [].concat(...arrays)
RECURSIVE concat(_)
concat(arrays) ==
    IF arrays = <<>> THEN <<>> ELSE Head(arrays) \o concat(Tail(arrays))

\* new PipelineContextDemo(pipelineId): reviews not loaded yet, nothing
\* updated, revision 0.
PipelineContextDemo(id) ==
    [pipelineId |-> id, reviews |-> FALSE, showReviewUpdated |-> FALSE,
     reviewRevision |-> 0]

\* new RunStore(run, i, filter, groupByAge, pipelineContext, hideBaseline, showAge):
\* id is the identity of the object (the build it belongs to and its index).
RunStore(id, run, i) ==
    [id |-> id, logIndex |-> i, driverName |-> run.driverName,
     results |-> run.results]

\* RunStore.filteredCount: the results of the run that satisfy the keyword
\* filter, read against the live filter state.
filteredCountOf(runStore, fs) ==
    LET keywords == IF IsDefined(fs.Keywords)
                    THEN NonEmptyParts(split(toLowerCase(Value(fs.Keywords))))
                    ELSE <<>>
    IN  Cardinality({ n \in 1..Len(runStore.results) :
                        isMatch(toLowerCase(runStore.results[n]), keywords) })

filteredCount(runStore) == filteredCountOf(runStore, filter)

(***************************************************************************)
(* Viewer: derived values.                                                 *)
(***************************************************************************)
\* The body of the computedFn runStores for the collection with reference l.
ByDriverNameDescending(a, b) == localeCompare(b.driverName, a.driverName)

ByDriverName(a, b) == localeCompare(a.driverName, b.driverName)

\* gen tags the evaluation that constructs the RunStore objects: the
\* objects of two evaluations are different objects.
runStoresBodyAllVersions(l, gen) ==
    IF l = 0 THEN <<>>
    ELSE LET runs == concat([n \in 1..Len(LogInputs[l]) |-> LogInputs[l][n].runs])
             built == [i \in 1..Len(runs) |->
                          RunStore(<<l, gen, i - 1>>, runs[i], i - 1)]
         IN  sorted(built, [i \in 1..Len(built) |-> [j \in 1..Len(built) |->
                                ByDriverName(built[i], built[j])]])

runStoresBody(l, gen) ==
    IF l = 0 THEN <<>>
    ELSE LET supported == SelectSeq(LogInputs[l],
                                    LAMBDA log : log.version = SupportedVersion)
             runs == concat([n \in 1..Len(supported) |-> supported[n].runs])
             built == [i \in 1..Len(runs) |->
                          RunStore(<<l, gen, i - 1>>, runs[i], i - 1)]
         IN  sorted(built, [i \in 1..Len(built) |-> [j \in 1..Len(built) |->
                                ByDriverName(built[i], built[j])]])

runStoresBuild(l) == runStoresBody(l, 0)

\* The memoised runStores(logs). The table is indexed by reference + 1; an
\* entry is the evaluation tag and the array it returned.
IsCached(cache, l) == IsDefined(cache[l + 1])
runStores(l) == Value(runStoresCache[l + 1]).stores

\* The body of runStores reads this.props (hideBaseline, showAge), which an
\* @observer component exposes as one observable: when the host passes other
\* props every memoised evaluation is stale and is redone on its next read.
Invalidate(cache) == [r \in 1..Len(cache) |-> Undefined]

\* The tag of the next evaluation: it differs from the tag of the entry in
\* the table (there is at most one, that of the current collection).
FreshGen(cache) ==
    IF \E r \in 1..Len(cache) : IsDefined(cache[r])
    THEN 1 - Value(cache[CHOOSE r \in 1..Len(cache) : IsDefined(cache[r])]).gen
    ELSE 0

\* logs?.some(log => log.version !== '2.1.0'); undefined is falsy
someOldVersionFirstLog(l) ==
    IF l = 0 THEN FALSE
    ELSE LogInputs[l][1].version # SupportedVersion

someOldVersion(l) ==
    IF l = 0 THEN FALSE
    ELSE \E n \in 1..Len(LogInputs[l]) : LogInputs[l][n].version # SupportedVersion

\* render(): if (pipelineContext && !pipelineContext.reviews) return null
RendersOf(ctx) == ~(IsDefined(ctx) /\ ~Value(ctx).reviews)
Renders == RendersOf(pipelineContext)

\* Highest count first.
ByFilteredCountAscending(a, b) == filteredCount(a) - filteredCount(b)

ByFilteredCount(a, b) == filteredCount(b) - filteredCount(a)

\* @computed get runStoresSorted()
runStoresSorted ==
    LET copy == runStores(logs)
    IN  sorted(copy, [i \in 1..Len(copy) |-> [j \in 1..Len(copy) |->
                         ByFilteredCount(copy[i], copy[j])]])

RECURSIVE Sum(_)
Sum(counts) == IF counts = <<>> THEN 0 ELSE Head(counts) + Sum(Tail(counts))

\* runStoresSorted.reduce((total, run) => total + run.filteredCount, 0)
totalFilteredCount ==
    Sum([n \in 1..Len(runStoresSorted) |-> filteredCount(runStoresSorted[n])])

filterKeywordsTruthy ==
    IsDefined(filter.Keywords) /\ Value(filter.Keywords) # EmptyString

\* nearElement of render(): null (loading), the run cards, or the
\* "No results found" card.
nearElement ==
    IF Len(runStoresSorted) = 0 THEN [kind |-> "null", cards |-> <<>>]
    ELSE IF ~filterKeywordsTruthy \/ totalFilteredCount # 0
         THEN [kind |-> "RunCards",
               cards |-> SelectSeq(runStoresSorted,
                            LAMBDA run : ~filterKeywordsTruthy \/ filteredCount(run) # 0)]
         ELSE [kind |-> "ZeroData", cards |-> <<>>]

\* The part of render() that calls runStores(logs): the memo table after a
\* render with context ctx and collection l.
RenderViewer(cache, l, ctx, gen) ==
    IF RendersOf(ctx) /\ ~IsCached(cache, l)
    THEN [cache EXCEPT ![l + 1] = Some([gen |-> gen, stores |-> runStoresBody(l, gen)])]
    ELSE cache

\* A render after a change of an observable other than the props.
AfterRenderNoMemo(l, ctx) ==
    runStoresCache' = RenderViewer(Invalidate(runStoresCache), l, ctx,
                                   FreshGen(runStoresCache))

AfterRender(l, ctx) ==
    runStoresCache' = RenderViewer(runStoresCache, l, ctx, FreshGen(runStoresCache))

\* A render after the host passed other props.
AfterPropsChange(l, ctx) ==
    runStoresCache' = RenderViewer(Invalidate(runStoresCache), l, ctx,
                                   FreshGen(runStoresCache))

(***************************************************************************)
(* Viewer: operations.                                                     *)
(***************************************************************************)
Dirty == IsDefined(pipelineContext) /\ Value(pipelineContext).showReviewUpdated
Revision == IF IsDefined(pipelineContext) THEN Value(pipelineContext).reviewRevision ELSE 0

Event(op) == [op |-> op, dirty |-> Dirty, revision |-> Revision]

\* The constructor autorun: this.filter.getState() is read, and
\* if (this.pipelineContext) this.pipelineContext.showReviewUpdated = false
filterAutorunIdle(ctx) == ctx

filterAutorun(ctx) ==
    IF IsDefined(ctx) THEN Some([Value(ctx) EXCEPT !.showReviewUpdated = FALSE])
    ELSE ctx

\* The user changes the keyword filter in the filter bar.
SetFilter(k) ==
    /\ k # filter.Keywords
    /\ filter' = [filter EXCEPT !.Keywords = k]
    /\ pipelineContext' = filterAutorun(pipelineContext)
    /\ AfterRender(logs, pipelineContext')
    /\ last' = Event("SetFilter")
    /\ UNCHANGED <<logs, pipelineId, warnOldVersion>>
    /\ UNCHANGED discussionVars
    /\ UNCHANGED handlerVars

\* pipelineContextDisposer: the autorun on props.pipelineId
pipelineAutorun(id, ctx) ==
    IF ~IsDefined(id) THEN ctx ELSE Some(PipelineContextDemo(Value(id)))

\* The host passes other props. Both autoruns on this.props
\* (pipelineContextDisposer and _warnOldVersion) read the one observable
\* this.props, so both run again whichever prop changed; then render().
PropsChange(l, id) ==
    /\ logs' = l
    /\ pipelineId' = id
    /\ pipelineContext' = pipelineAutorun(id, pipelineContext)
    /\ warnOldVersion' = someOldVersion(l)
    /\ AfterPropsChange(l, pipelineContext')

\* The host passes another pipelineId.
SetPipelineId(id) ==
    /\ id # pipelineId
    /\ PropsChange(logs, id)
    /\ last' = Event("SetPipelineId")
    /\ UNCHANGED filter
    /\ UNCHANGED discussionVars
    /\ UNCHANGED handlerVars

\* The host passes another log collection.
SetLogs(l) ==
    /\ l # logs
    /\ PropsChange(l, pipelineId)
    /\ last' = Event("SetLogs")
    /\ UNCHANGED filter
    /\ UNCHANGED discussionVars
    /\ UNCHANGED handlerVars

\* MessageCard onDismiss
DismissWarning ==
    /\ Renders
    /\ warnOldVersion
    /\ warnOldVersion' = FALSE
    /\ last' = Event("DismissWarning")
    /\ UNCHANGED <<filter, logs, pipelineId, pipelineContext, runStoresCache>>
    /\ UNCHANGED discussionVars
    /\ UNCHANGED handlerVars

\* The review collaborator finishes loading its reviews.
ReviewsLoaded ==
    /\ IsDefined(pipelineContext)
    /\ ~Value(pipelineContext).reviews
    /\ pipelineContext' = Some([Value(pipelineContext) EXCEPT !.reviews = TRUE])
    /\ AfterRender(logs, pipelineContext')
    /\ last' = Event("ReviewsLoaded")
    /\ UNCHANGED <<filter, logs, pipelineId, warnOldVersion>>
    /\ UNCHANGED discussionVars
    /\ UNCHANGED handlerVars

\* The review collaborator reports that background results changed.
ReviewUpdated ==
    /\ IsDefined(pipelineContext)
    /\ Value(pipelineContext).reviews
    /\ ~Value(pipelineContext).showReviewUpdated
    /\ pipelineContext' = Some([Value(pipelineContext) EXCEPT !.showReviewUpdated = TRUE])
    /\ last' = Event("ReviewUpdated")
    /\ UNCHANGED <<filter, logs, pipelineId, warnOldVersion, runStoresCache>>
    /\ UNCHANGED discussionVars
    /\ UNCHANGED handlerVars

\* Toast onCallToActionClick ("Re-apply Filter")
onCallToActionClickNoBump(ctx) ==
    [ctx EXCEPT !.showReviewUpdated = FALSE]

onCallToActionClick(ctx) ==
    [[ctx EXCEPT !.showReviewUpdated = FALSE]
          EXCEPT !.reviewRevision = ctx.reviewRevision + 1]

Reapply ==
    /\ Renders
    /\ Dirty
    /\ Revision < MaxRevision
    /\ pipelineContext' = Some(onCallToActionClick(Value(pipelineContext)))
    /\ last' = Event("Reapply")
    /\ UNCHANGED <<filter, logs, pipelineId, warnOldVersion, runStoresCache>>
    /\ UNCHANGED discussionVars
    /\ UNCHANGED handlerVars

(***************************************************************************)
(* Reactions and event handlers, write by write.                           *)
(*                                                                         *)
(* No handler of the two components runs in a MobX action: every write to  *)
(* an observable runs, before the next statement, the autoruns that read   *)
(* it. The render of an @observer component is a reaction too, but its     *)
(* forceUpdate is queued by React while an event handler runs and happens  *)
(* when the handler has returned.                                          *)
(***************************************************************************)
Reactions ==
    {"Viewer.autorun", "Viewer.pipelineContextDisposer", "Viewer._warnOldVersion",
     "Viewer.render", "Discussion.render", "DiscussionDetails.render"}

Autoruns ==
    {"Viewer.autorun", "Viewer.pipelineContextDisposer", "Viewer._warnOldVersion"}

\* The observables a reaction reads. store.discussions, DiscussionItem.status
\* and DiscussionItem.disposition are plain fields and are not among them.
ReadsWithToast(r) ==
    CASE r = "Viewer.autorun" -> {"filter", "showReviewUpdated"}
      [] r = "Viewer.pipelineContextDisposer" -> {"props"}
      [] r = "Viewer._warnOldVersion" -> {"props"}
      [] r = "Viewer.render" ->
            {"props", "filter", "reviews", "showReviewUpdated", "warnOldVersion"}
      [] r = "Discussion.render" -> {"props", "selectedDiscussion", "comments"}
      [] OTHER -> {"comments", "showAll", "newComment", "newCommentError"}

Reads(r) ==
    CASE r = "Viewer.autorun" -> {"filter"}
      [] r = "Viewer.pipelineContextDisposer" -> {"props"}
      [] r = "Viewer._warnOldVersion" -> {"props"}
      [] r = "Viewer.render" ->
            {"props", "filter", "reviews", "showReviewUpdated", "warnOldVersion"}
      [] r = "Discussion.render" -> {"props", "selectedDiscussion", "comments"}
      [] OTHER -> {"comments", "showAll", "newComment", "newCommentError"}

\* The reactions that run inside the handler, right after it wrote o.
RunsOnWrite(o) == { r \in Autoruns : o \in Reads(r) }

\* A write to o that is not the last write of its handler.
WriteInHandler(o) == torn' = (torn \/ RunsOnWrite(o) # {})

\* Toast onCallToActionClick, first statement:
\* pipelineContext.showReviewUpdated = false
ReapplyClear ==
    /\ pc = "idle"
    /\ Renders
    /\ Dirty
    /\ Revision < MaxRevision
    /\ pipelineContext' =
         Some(onCallToActionClickNoBump(Value(pipelineContext)))
    /\ pc' = "Reapply"
    /\ WriteInHandler("showReviewUpdated")
    /\ last' = Event("Reapply")
    /\ UNCHANGED <<filter, logs, pipelineId, warnOldVersion, runStoresCache>>
    /\ UNCHANGED discussionVars

\* Toast onCallToActionClick, second statement:
\* pipelineContext.reviewRevision += 1; the handler returns and the Viewer
\* renders.
ReapplyBump ==
    /\ pc = "Reapply"
    /\ pipelineContext' =
         Some([Value(pipelineContext) EXCEPT !.reviewRevision = @ + 1])
    /\ pc' = "idle"
    /\ AfterRender(logs, pipelineContext')
    /\ UNCHANGED <<filter, logs, pipelineId, warnOldVersion, last, torn>>
    /\ UNCHANGED discussionVars

\* The Discussion pane is on screen: the Viewer renders and has a pipeline
\* context (the far element of the Splitter).
PaneShown == Renders /\ IsDefined(pipelineContext)

\* "Start new discussion" onClick, up to store.discussions.push(newDiscussion)
createThreadPush ==
    /\ pc = "idle"
    /\ PaneShown
    /\ StartNewDiscussionOffered
    /\ Len(discussions) < MaxThreads
    /\ discussions' = createThreadNew
    /\ pc' = "createThread"
    /\ WriteInHandler("discussions")
    /\ UNCHANGED <<filterState, selectedDiscussion, filteredCache, showAll,
                   newComment, newCommentError, clock>>
    /\ UNCHANGED viewerVars

\* "Start new discussion" onClick, last statement:
\* this.selectedDiscussion = newDiscussion; the handler returns and the
\* Discussion renders.
createThreadSelect ==
    /\ pc = "createThread"
    /\ selectedDiscussion' = Len(discussions)
    /\ filteredCache' = RenderDiscussion(filterState, discussions,
                                         selectedDiscussion', filteredCache, FALSE)
    /\ MountDetails
    /\ pc' = "idle"
    /\ UNCHANGED <<filterState, discussions, clock, torn>>
    /\ UNCHANGED viewerVars

\* The user changes the keyword filter in the filter bar while the pane is
\* on screen: the Viewer renders and passes the new state of the filter to
\* the Discussion as props.filterState.
SetFilterShared(k) ==
    /\ k # filter.Keywords
    /\ filter' = [filter EXCEPT !.Keywords = k]
    /\ pipelineContext' = filterAutorun(pipelineContext)
    /\ AfterRender(logs, pipelineContext')
    /\ last' = Event("SetFilter")
    /\ filterState' = [filterState EXCEPT !.Keywords = k]
    /\ filteredCache' = RenderDiscussion(filterState', discussions,
                                         selectedDiscussion, filteredCache, TRUE)
    /\ UNCHANGED <<logs, pipelineId, warnOldVersion>>
    /\ UNCHANGED <<discussions, selectedDiscussion, showAll, newComment,
                   newCommentError, clock>>
    /\ UNCHANGED handlerVars

(***************************************************************************)
(* Specifications.                                                         *)
(***************************************************************************)
DiscussionInit ==
    /\ filterState = [Keywords |-> Undefined, Discussion |-> Undefined]
    /\ discussions = store
    /\ selectedDiscussion = 0
    /\ filteredCache = Some(filteredDiscussions(filterState, discussions))
    /\ showAll = FALSE
    /\ newComment = EmptyString
    /\ newCommentError = FALSE
    /\ clock = Epoch

\* The Viewer right after construction and first render, for the props
\* logs = l and pipelineId = id.
ViewerInit(l, id) ==
    /\ filter = [Keywords |-> Undefined]
    /\ logs = l
    /\ pipelineId = id
    /\ pipelineContext = filterAutorun(pipelineAutorun(id, Undefined))
    /\ warnOldVersion = someOldVersion(l)
    /\ runStoresCache = RenderViewer([r \in 1..(Len(LogInputs) + 1) |-> Undefined],
                                     l, pipelineContext, 0)
    /\ last = [op |-> "init", dirty |-> FALSE, revision |-> 0]

ViewerIdle == ViewerInit(0, Undefined)

\* No event handler is running.
HandlerIdle == pc = "idle" /\ torn = FALSE

InitDiscussion == DiscussionInit /\ ViewerIdle /\ HandlerIdle

\* The threads whose disposition dropdown is used in the list machine (the
\* list reads no disposition).
DispositionThreads == {1}

NextDiscussion ==
    \/ \E k \in KeywordInputs : SetKeywords(k)
    \/ \E s \in StatusInputs : SetStatusFilter(s)
    \/ \E i \in 1..Len(discussions) : selectThread(i)
    \/ back
    \/ createThread
    \/ \E i \in 1..Len(discussions) : \E item \in {statuses[n] : n \in 1..Len(statuses)} :
           setStatus(i, item)
    \/ \E i \in DispositionThreads : \E item \in DispositionInputs :
           setDisposition(i, item)

SpecDiscussion == InitDiscussion /\ [][NextDiscussion]_vars

NextDetails ==
    \/ \E i \in 1..Len(discussions) : selectThread(i)
    \/ back
    \/ \E i \in 1..Len(discussions) : \E item \in {statuses[n] : n \in 1..Len(statuses)} :
           setStatus(i, item)
    \/ \E i \in 1..Len(discussions) : \E item \in DispositionInputs :
           setDisposition(i, item)
    \/ \E newValue \in TextInputs : onChange(newValue)
    \/ \E key \in KeyInputs : onKeyPress(key)
    \/ viewMoreComments

SpecDetails == InitDiscussion /\ [][NextDetails]_vars

InitViewer ==
    /\ DiscussionInit
    /\ HandlerIdle
    /\ \E l \in LogRefs : \E id \in PipelineIdInputs : ViewerInit(l, id)

NextViewer ==
    \/ \E k \in ViewerKeywordInputs : SetFilter(k)
    \/ \E id \in PipelineIdInputs : SetPipelineId(id)
    \/ \E l \in LogRefs : SetLogs(l)
    \/ DismissWarning
    \/ ReviewsLoaded
    \/ ReviewUpdated
    \/ Reapply

SpecViewer == InitViewer /\ [][NextViewer]_vars

\* A session: the Viewer with a pipeline and its Discussion pane. Between
\* the writes of a handler nothing else is scheduled.
SessionKeywordInputs ==
    {Undefined, Some(RULE01), Some(toLowerCase(RULE02 \o Sp \o RULE01))}

SessionThread == 1

InitSession ==
    /\ DiscussionInit
    /\ ViewerInit(4, Some("p1"))
    /\ HandlerIdle

\* No handler is between two writes; the pane is on screen; the thread of
\* the detail view is SessionThread.
Ready == pc = "idle"
PaneReady == Ready /\ PaneShown
DetailsReady == PaneReady /\ selectedDiscussion = SessionThread

NextSession ==
    \/ \E k \in SessionKeywordInputs : Ready /\ SetFilterShared(k)
    \/ Ready /\ ReviewsLoaded
    \/ Ready /\ ReviewUpdated
    \/ Ready /\ DismissWarning
    \/ ReapplyClear
    \/ ReapplyBump
    \/ \E i \in 1..Len(discussions) : PaneReady /\ selectThread(i)
    \/ PaneReady /\ back
    \/ createThreadPush
    \/ createThreadSelect
    \/ DetailsReady /\ setStatus(SessionThread, statuses[2])
    \/ DetailsReady /\ setDisposition(SessionThread, dispositions[6])
    \/ DetailsReady /\ onChange(<<"a">>)
    \/ DetailsReady /\ onKeyPress("Enter")
    \/ DetailsReady /\ viewMoreComments

SpecSession == InitSession /\ [][NextSession]_vars

(***************************************************************************)
(* Properties.                                                             *)
(***************************************************************************)
SignatureExists(sig) ==
    \E i \in 1..Len(discussions) : discussions[i].keywords = sig

InitialSignatures == { store[i].keywords : i \in 1..Len(store) }

\* C1: no two threads of the discussion store have the same keyword
\* signature.
C1_UniqueSignatures ==
    \A i, j \in 1..Len(discussions) :
        i # j => discussions[i].keywords # discussions[j].keywords

\* C2: createThread on a signature that already exists in the store leaves
\* the store and the selection unchanged.
C2_DuplicateRejected ==
    [][ (createThread /\ SignatureExists(Value(filterState.Keywords)))
          => UNCHANGED <<discussions, selectedDiscussion>> ]_vars

\* C3: postComment (Enter) with text that is empty after trimming appends
\* no comment: every thread's comment sequence is what it was.
C3_BlankRejected ==
    [][ (selectedDiscussion # 0 /\ trim(newComment) = EmptyString
           /\ onKeyPress("Enter"))
          => \A i \in 1..Len(discussions) :
                 discussions'[i].comments = discussions[i].comments ]_vars

\* C4: createThread on a signature not in the store adds exactly one thread
\* with that signature, status Open, the first disposition and no comments,
\* leaves the existing threads as they were and selects the new thread.
C4_CreateThread ==
    [][ (createThread /\ ~SignatureExists(Value(filterState.Keywords)))
          => LET sig == Value(filterState.Keywords)
                 n == Len(discussions)
             IN  /\ Len(discussions') = n + 1
                 /\ SubSeq(discussions', 1, n) = discussions
                 /\ discussions'[n + 1].keywords = sig
                 /\ discussions'[n + 1].status = "Open"
                 /\ discussions'[n + 1].disposition = "Should fix, P1"
                 /\ discussions'[n + 1].comments = <<>>
                 /\ Cardinality({ i \in 1..(n + 1) : discussions'[i].keywords = sig }) = 1
                 /\ selectedDiscussion' = n + 1 ]_vars

C4_Witness ==
    /\ Len(discussions) = Len(store) + 1
    /\ selectedDiscussion = Len(discussions)
    /\ discussions[Len(discussions)].keywords \notin InitialSignatures
    /\ discussions[Len(discussions)].comments = <<>>

\* C5: postComment (Enter) with non-blank text appends exactly one comment
\* carrying that text at the tail of the selected thread, keeps the former
\* comments as a prefix, clears the pending input and leaves the comments of
\* every other thread alone; posted comments therefore follow the initial
\* ones in post order.
PostedInOrder(comments) ==
    \A m, n \in 1..Len(comments) :
        (m < n /\ comments[n].when >= Epoch)
            => comments[m].when < comments[n].when

C5_PostStep ==
    (selectedDiscussion # 0 /\ trim(newComment) # EmptyString /\ onKeyPress("Enter"))
      => LET old == discussions[selectedDiscussion].comments
             new == discussions'[selectedDiscussion].comments
         IN  /\ Len(new) = Len(old) + 1
             /\ SubSeq(new, 1, Len(old)) = old
             /\ new[Len(new)].text = newComment
             /\ newComment' = EmptyString
             /\ \A i \in 1..Len(discussions) :
                    i # selectedDiscussion
                        => discussions'[i].comments = discussions[i].comments

C5_AppendAtTail ==
    /\ [](\A i \in 1..Len(discussions) : PostedInOrder(discussions[i].comments))
    /\ [][C5_PostStep]_vars

C5_Witness ==
    /\ selectedDiscussion # 0
    /\ newComment = EmptyString
    /\ LET comments == discussions[selectedDiscussion].comments
           n == Len(comments)
       IN  /\ n >= 3
           /\ comments[n - 2].when < Epoch
           /\ comments[n - 1].when = Epoch
           /\ comments[n].when = Epoch + 1
           /\ trim(comments[n - 1].text) # EmptyString
           /\ trim(comments[n].text) # EmptyString

\* C6: a reapply of a dirty state leaves dirty false and the revision one
\* greater than before.
C6_Reapply ==
    last.op = "Reapply"
        => (last.dirty /\ ~Dirty /\ Revision = last.revision + 1)

C6_Witness == last.op = "Reapply" /\ last.dirty /\ Revision >= 1

\* C7: a filter change made while dirty leaves dirty false and the revision
\* as it was.
C7_FilterClearsDirty ==
    (last.op = "SetFilter" /\ last.dirty)
        => (~Dirty /\ Revision = last.revision)

C7_Witness == last.op = "SetFilter" /\ last.dirty /\ ~Dirty

\* C8: the ranking is the run aggregates in descending filteredCount, and
\* aggregates of equal filteredCount keep their relative input order.
PositionIn(seq, runStore) == CHOOSE n \in 1..Len(seq) : seq[n].id = runStore.id

CountsOf(seq) == [n \in 1..Len(seq) |-> filteredCount(seq[n])]

C9_Tokens ==
    IF IsDefined(filterState.Keywords)
    THEN NonEmptyParts(split(toLowerCase(Value(filterState.Keywords))))
    ELSE <<>>

C9_ShouldBeVisible(i) ==
    /\ \/ ~IsDefined(filterState.Discussion)
       \/ Value(filterState.Discussion) = {}
       \/ discussions[i].status \in Value(filterState.Discussion)
    /\ \A k \in 1..Len(C9_Tokens) :
           includes(toLowerCase(discussions[i].keywords), C9_Tokens[k])

C9_VisibleIsFiltered ==
    selectedDiscussion = 0
        => VisibleSet = { i \in 1..Len(discussions) : C9_ShouldBeVisible(i) }

\* C10: with a non-empty keyword query and an available log collection, the
\* "No results found" card is shown exactly when the filtered counts of all
\* run aggregates sum to 0.
NoResultsShown ==
    /\ Renders
    /\ IsCached(runStoresCache, logs)
    /\ nearElement.kind = "ZeroData"

C10_Total ==
    LET aggregates == runStoresBuild(logs)
    IN  Sum([n \in 1..Len(aggregates) |-> filteredCount(aggregates[n])])

C10_NoResultsIffZero ==
    (filterKeywordsTruthy /\ logs # 0)
        => (NoResultsShown <=> C10_Total = 0)

\* C11 (as stated): in the list view hasExactMatch is true if the query is
\* empty, and otherwise exactly when some visible thread's signature equals
\* the lower-cased query; creation is offered exactly when it is false.
C11_QueryEmpty ==
    ~IsDefined(filterState.Keywords) \/ Value(filterState.Keywords) = EmptyString

C11_Original ==
    selectedDiscussion = 0
        => LET expected ==
                   \/ C11_QueryEmpty
                   \/ \E i \in VisibleSet :
                          discussions[i].keywords = toLowerCase(Value(filterState.Keywords))
           IN  /\ hasExactKeywordMatch <=> expected
               /\ StartNewDiscussionOffered <=> ~expected

\* C11 (amended): in the list view hasExactMatch is true if the query is
\* empty, and otherwise exactly when some visible thread's lower-cased
\* signature equals the lower-cased query; creation is offered exactly when
\* it is false.
C11_ExactMatch ==
    selectedDiscussion = 0
        => LET expected ==
                   \/ C11_QueryEmpty
                   \/ \E i \in VisibleSet :
                          toLowerCase(discussions[i].keywords)
                              = toLowerCase(Value(filterState.Keywords))
           IN  /\ hasExactKeywordMatch <=> expected
               /\ StartNewDiscussionOffered <=> ~expected

C11_Witness ==
    /\ selectedDiscussion = 0
    /\ ~C11_QueryEmpty
    /\ hasExactKeywordMatch
    /\ \A i \in VisibleSet :
           discussions[i].keywords # toLowerCase(Value(filterState.Keywords))

\* C12: a reapply forces a fresh build of the run aggregates of the current
\* log collection: the memoised construction is not the one of before.
C12_ReapplyRebuilds ==
    [][ Reapply
          => \/ ~IsCached(runStoresCache', logs')
             \/ Value(runStoresCache'[logs' + 1]).gen
                    # Value(runStoresCache[logs + 1]).gen ]_vars

C13_Tokens ==
    IF IsDefined(filter.Keywords)
    THEN NonEmptyParts(split(toLowerCase(Value(filter.Keywords))))
    ELSE <<>>

C13_CurrentCount(runStore) ==
    Cardinality({ n \in 1..Len(runStore.results) :
        \A k \in 1..Len(C13_Tokens) :
            includes(toLowerCase(runStore.results[n]), C13_Tokens[k]) })

C13_CountsAreCurrent ==
    (Renders /\ IsCached(runStoresCache, logs) /\ filterKeywordsTruthy
       /\ nearElement.kind = "RunCards")
        => { nearElement.cards[n].id : n \in 1..Len(nearElement.cards) }
             = { runStores(logs)[n].id : n \in
                   { m \in 1..Len(runStores(logs)) :
                       C13_CurrentCount(runStores(logs)[m]) > 0 } }

C13_MemoStep ==
    (logs' = logs /\ pipelineId' = pipelineId)
        => \A l \in LogRefs :
               IsCached(runStoresCache, l)
                   => runStoresCache'[l + 1] = runStoresCache[l + 1]

C14_Original ==
    IsCached(runStoresCache, logs)
        => \A m, n \in 1..Len(runStores(logs)) :
               m < n => runStores(logs)[m].logIndex < runStores(logs)[n].logIndex

\* C14 (amended): the aggregates of the current collection come by
\* ascending driver name, and aggregates of the same driver name in
\* encounter order; the encounter indexes are 0 .. count - 1.
C14_ByDriverName ==
    IsCached(runStoresCache, logs)
        => /\ \A m, n \in 1..Len(runStores(logs)) :
                m < n =>
                  \/ localeCompare(runStores(logs)[m].driverName,
                                   runStores(logs)[n].driverName) < 0
                  \/ /\ runStores(logs)[m].driverName
                          = runStores(logs)[n].driverName
                     /\ runStores(logs)[m].logIndex
                          < runStores(logs)[n].logIndex
           /\ { runStores(logs)[n].logIndex : n \in 1..Len(runStores(logs)) }
                = 0..(Len(runStores(logs)) - 1)

C14_Witness ==
    /\ IsCached(runStoresCache, logs)
    /\ \E m, n \in 1..Len(runStores(logs)) :
          /\ m < n
          /\ runStores(logs)[m].logIndex > runStores(logs)[n].logIndex
    /\ \E m, n \in 1..Len(runStores(logs)) :
          /\ m < n
          /\ runStores(logs)[m].driverName = runStores(logs)[n].driverName

\* C15: the aggregator builds exactly one aggregate per run of the logs of
\* the supported version, none for a run of another log, and the empty
\* sequence when the log collection is absent.
C15_SupportedRuns(l) ==
    UNION { { <<n, r>> : r \in 1..Len(LogInputs[l][n].runs) } :
              n \in { k \in 1..Len(LogInputs[l]) :
                        LogInputs[l][k].version = SupportedVersion } }

\* The encounter index of run r of log n: the runs of the supported logs
\* before it.
C15_EncounterIndex(l, n, r) ==
    Cardinality({ p \in C15_SupportedRuns(l) :
                    p[1] < n \/ (p[1] = n /\ p[2] < r) })

C15_OnePerSupportedRun ==
    IsCached(runStoresCache, logs)
        => IF logs = 0
           THEN runStores(logs) = <<>>
           ELSE /\ Len(runStores(logs)) = Cardinality(C15_SupportedRuns(logs))
                /\ \A p \in C15_SupportedRuns(logs) :
                     \E n \in 1..Len(runStores(logs)) :
                        /\ runStores(logs)[n].logIndex
                             = C15_EncounterIndex(logs, p[1], p[2])
                        /\ runStores(logs)[n].driverName
                             = LogInputs[logs][p[1]].runs[p[2]].driverName
                        /\ runStores(logs)[n].results
                             = LogInputs[logs][p[1]].runs[p[2]].results
                /\ \A m, n \in 1..Len(runStores(logs)) :
                     runStores(logs)[m].id = runStores(logs)[n].id => m = n

C15_Witness ==
    /\ logs # 0
    /\ IsCached(runStoresCache, logs)
    /\ \E n \in 1..Len(LogInputs[logs]) :
          LogInputs[logs][n].version # SupportedVersion
    /\ Len(runStores(logs)) > 1

\* C16: the legacy-logs flag is raised when the viewer gets a log collection
\* that holds a log of an unsupported version, and only then; once the user
\* has dismissed the notice it stays cleared while the props of the viewer
\* are the same, whatever filter change, review update or reapply happens.
C16_LegacyPresent(l) ==
    l # 0 /\ { n \in 1..Len(LogInputs[l]) :
                 LogInputs[l][n].version # SupportedVersion } # {}

C16_Step ==
    /\ logs' # logs => warnOldVersion' = C16_LegacyPresent(logs')
    /\ warnOldVersion' => C16_LegacyPresent(logs')
    /\ (logs' = logs /\ pipelineId' = pipelineId /\ ~warnOldVersion)
          => ~warnOldVersion'

C16_OneShot ==
    (warnOldVersion = C16_LegacyPresent(logs)) /\ [][C16_Step]_vars

C16_Witness ==
    /\ last.op \in {"SetFilter", "Reapply"}
    /\ C16_LegacyPresent(logs)
    /\ ~warnOldVersion

\* C17: the applied revision never decreases: the reapply action increases
\* it by exactly 1 and every other step (a review update, a filter change,
\* a (re)initialisation of the pipeline context) leaves it as it is.
C17_RevisionMonotonic ==
    [][ /\ Revision' >= Revision
        /\ last'.op = "Reapply" => Revision' = Revision + 1
        /\ last'.op # "Reapply" => Revision' = Revision ]_vars

C19_Exposed(ds, sel) ==
    IF Len(ds[sel].comments) < 3 THEN ds[sel].comments
    ELSE SubSeq(ds[sel].comments, 1, 3)

C19_Step ==
    /\ (selectedDiscussion' # 0 /\ selectedDiscussion' # selectedDiscussion)
          => /\ ~showAll'
             /\ shownComments' = C19_Exposed(discussions', selectedDiscussion')
    /\ (selectedDiscussion # 0 /\ selectedDiscussion' = selectedDiscussion
          /\ showAll)
          => /\ showAll'
             /\ shownComments' = discussions'[selectedDiscussion'].comments

C19_Monotonic == [][C19_Step]_vars

C19_Witness ==
    /\ selectedDiscussion = SessionThread
    /\ showAll
    /\ Len(discussions[SessionThread].comments) > Len(store[SessionThread].comments)
    /\ discussions[SessionThread].status # store[SessionThread].status
    /\ IsDefined(filterState.Keywords)

\* C20: the selection starts as the list view (no thread selected) and
\* changes only by selectThread(t), to t, by back(), to the list view, and
\* by createThread, to the new thread; every other step leaves it as it is;
\* the selected thread is always a thread of the store.
C20_Step ==
    /\ selectedDiscussion' \in 0..Len(discussions')
    /\ \A i \in 1..Len(discussions) : selectThread(i) => selectedDiscussion' = i
    /\ back => selectedDiscussion' = 0
    /\ createThreadSelect
          => /\ selectedDiscussion' = Len(discussions')
             /\ discussions'[selectedDiscussion'].comments = <<>>
             /\ discussions'[selectedDiscussion'].keywords
                  = Value(filterState.Keywords)
    /\ selectedDiscussion' # selectedDiscussion
          => \/ \E i \in 1..Len(discussions) : selectThread(i)
             \/ back
             \/ createThreadSelect

C20_Selection == selectedDiscussion = 0 /\ [][C20_Step]_vars

C20_Witness ==
    /\ pc = "idle"
    /\ Len(discussions) > Len(store)
    /\ selectedDiscussion = Len(discussions)
    /\ last.op = "Reapply"
    /\ Revision >= 1
    /\ Len(discussions[SessionThread].comments) > Len(store[SessionThread].comments)

====
